---- MODULE Spec2Model ----
(***************************************************************************)
(* A model of simple_port_scanner.py: parse_ports, try_port_on_addrs and   *)
(* the thread-pool scan of main.                                           *)
(***************************************************************************)
EXTENDS Integers, Sequences, FiniteSets, TLC

(***************************************************************************)
(* Bounds of the model.                                                    *)
(***************************************************************************)
MaxPorts == 3
MaxAddrs == 2
MaxWorkers == 3
MaxProbeAddrs == 3
\* most (candidate, port) connect outcomes the environment of one scan fixes
MaxAttempts == 6
\* most entries one getaddrinfo call returns, and the addresses they name
MaxLookup == 2
MaxIps == 2

VARIABLES
    mode,        \* the part of the program that runs: "main" (lines
                 \* 100-141), "scan" (from line 143 on), or a function
                 \* called on its own: "probe", "parse", "resolve"
    ports,       \* main: ports (sorted list of unique ports)
    addrs,       \* main: addrs (list of (family, ip))
    workers,     \* args.workers (max_workers of the pool)
    outcome,     \* environment: what the connect to (candidate i, port) does
    fault,       \* environment: ports whose task raises an internal error
    pc,          \* position of the main thread
    submitted,   \* number of ports already submitted by line 146
    queue,       \* the executor's work queue (ports of queued work items)
    thread,      \* the pool's worker threads
    fut,         \* state of the future of each port
    tried,       \* per port: candidates the loop of line 84 has visited
    connects,    \* per port: sockaddrs passed to connect_ex
    pendingFs,   \* as_completed: futures not yet yielded
    consumed,    \* ports of the futures yielded by as_completed, in order
    open_ports,  \* main: open_ports
    stdout,      \* lines printed from line 143 on
    shutdown,    \* the executor's shutdown flag
    text,        \* parse_ports: the text argument, a sequence of characters
    parsed,      \* parse_ports: what the call returned or raised
    reparsed,    \* parse_ports called again on its own output, as text
    force_ipv,   \* resolve: force_ipv ("None", "AF_INET" or "AF_INET6")
    lookup,      \* environment: what getaddrinfo gives for each family
    fam_i,       \* resolve: index in families of the next family
    seen,        \* resolve: seen
    rstate       \* resolve: "not called", "running", "returned", "raised"

vars == <<mode, ports, addrs, workers, outcome, fault, pc, submitted, queue,
          thread, fut, tried, connects, pendingFs, consumed, open_ports,
          stdout, shutdown, text, parsed, reparsed, force_ipv, lookup, fam_i,
          seen, rstate>>

parseVars == <<text, parsed, reparsed>>

resolveVars == <<force_ipv, lookup, fam_i, seen, rstate>>

(***************************************************************************)
(* Helpers.                                                                *)
(***************************************************************************)
Range(s) == {s[i] : i \in 1..Len(s)}

\* sorted(S) for a finite set of integers
Sorted(S) ==
    [i \in 1..Cardinality(S) |->
        CHOOSE x \in S : Cardinality({y \in S : y <= x}) = i]

\* The i-th resolved address: IPv4 and IPv6 candidates, distinct addresses.
Candidate(i) == IF i % 2 = 1 THEN <<"AF_INET", i>> ELSE <<"AF_INET6", i>>

\* connect_ex returns 0 / returns an error code / raises; socket() raises
Outcomes == {"ok", "errno", "connect_raises", "socket_raises"}

Threads == 1..MaxWorkers

\* a worker thread: its state, the port of the future it serves (task), the
\* port argument of the call it runs, and the index of the next candidate
IdleThread == [st |-> "idle", task |-> 0, port |-> 0, i |-> 0]
NoThread == [st |-> "unstarted", task |-> 0, port |-> 0, i |-> 0]

(***************************************************************************)
(* parse_ports, lines 26-47.  A text is a sequence of one-character        *)
(* strings.                                                                *)
(***************************************************************************)
MinPort == 1
MaxPort == 65535

Digits == <<"0", "1", "2", "3", "4", "5", "6", "7", "8", "9">>
IsDigit(c) == \E d \in 1..Len(Digits) : Digits[d] = c
DigitVal(c) == (CHOOSE d \in 1..Len(Digits) : Digits[d] = c) - 1
IsSpace(c) == c \in {" ", "\t"}

NotCalled == [state |-> "not called"]
Raised == [state |-> "raised"]
Returned(v) == [state |-> "returned", value |-> v]

\* str.split(sep): the pieces between the separators, empty pieces included
RECURSIVE Split(_, _)
Split(s, sep) ==
    IF \A k \in 1..Len(s) : s[k] # sep
    THEN <<s>>
    ELSE LET k == CHOOSE j \in 1..Len(s) :
                     s[j] = sep /\ \A m \in 1..(j - 1) : s[m] # sep
         IN <<SubSeq(s, 1, k - 1)>> \o Split(SubSeq(s, k + 1, Len(s)), sep)

\* str.strip()
Strip(s) ==
    IF \A k \in 1..Len(s) : IsSpace(s[k])
    THEN <<>>
    ELSE LET lo == CHOOSE j \in 1..Len(s) :
                      ~IsSpace(s[j]) /\ \A m \in 1..(j - 1) : IsSpace(s[m])
             hi == CHOOSE j \in 1..Len(s) :
                      ~IsSpace(s[j]) /\ \A m \in (j + 1)..Len(s) : IsSpace(s[m])
         IN SubSeq(s, lo, hi)

\* "-" in p
HasDash(p) == \E k \in 1..Len(p) : p[k] = "-"

\* p.split("-", 1): the text before and after the first dash
SplitDash(p) ==
    LET k == CHOOSE j \in 1..Len(p) :
                 p[j] = "-" /\ \A m \in 1..(j - 1) : p[m] # "-"
    IN <<SubSeq(p, 1, k - 1), SubSeq(p, k + 1, Len(p))>>

\* variant: the digits read in base 8
RECURSIVE DigitsValueBase8(_)
DigitsValueBase8(ds) ==
    IF ds = <<>> THEN 0
    ELSE DigitsValueBase8(SubSeq(ds, 1, Len(ds) - 1)) * 8 + DigitVal(ds[Len(ds)])

\* the value of a sequence of decimal digits
RECURSIVE DigitsValue(_)
DigitsValue(ds) ==
    IF ds = <<>> THEN 0
    ELSE DigitsValue(SubSeq(ds, 1, Len(ds) - 1)) * 10 + DigitVal(ds[Len(ds)])

\* digits, with single underscores allowed between digits
IsIntBody(b) ==
    /\ b # <<>>
    /\ \A k \in 1..Len(b) : IsDigit(b[k]) \/ b[k] = "_"
    /\ IsDigit(b[1]) /\ IsDigit(b[Len(b)])
    /\ \A k \in 1..(Len(b) - 1) : ~(b[k] = "_" /\ b[k + 1] = "_")

\* int(s): surrounding whitespace and one sign are accepted; anything else
\* raises ValueError (ok = FALSE)
PyInt(s) ==
    LET t == Strip(s)
        signed == t # <<>> /\ t[1] \in {"+", "-"}
        body == IF signed THEN SubSeq(t, 2, Len(t)) ELSE t
        mag == DigitsValue(SelectSeq(body, IsDigit))
    IN IF IsIntBody(body)
       THEN [ok |-> TRUE,
             val |-> IF signed /\ t[1] = "-" THEN 0 - mag ELSE mag]
       ELSE [ok |-> FALSE, val |-> 0]

\* variant: line 36 without its "if p.strip()" filter
PartsKeepEmpty(txt) ==
    LET pieces == Split(txt, ",")
    IN [k \in 1..Len(pieces) |-> Strip(pieces[k])]

\* line 36
Parts(txt) ==
    LET pieces == Split(txt, ",")
        stripped == [k \in 1..Len(pieces) |-> Strip(pieces[k])]
    IN SelectSeq(stripped, LAMBDA q : q # <<>>)

\* variant: range(lo, hi)
PortRangeExclusive(lo, hi) == lo..(hi - 1)

\* range(lo, hi + 1) of line 42
PortRange(lo, hi) == lo..hi

\* lines 39-45 for one part: the integers it adds, or a ValueError
PartPorts(p) ==
    IF HasDash(p)
    THEN LET ab == SplitDash(p)
             a == PyInt(ab[1])
             b == PyInt(ab[2])
         IN IF a.ok /\ b.ok
            THEN [ok |-> TRUE, set |-> PortRange(a.val, b.val)]
            ELSE [ok |-> FALSE, set |-> {}]
    ELSE LET n == PyInt(p)
         IN IF n.ok THEN [ok |-> TRUE, set |-> {n.val}]
            ELSE [ok |-> FALSE, set |-> {}]

\* variant: line 47 without the filter
InBoundsNoFilter(x) == TRUE

\* variant: 0 <= p <= 65535
InBoundsFromZero(x) == 0 <= x /\ x <= MaxPort

\* line 47: the filter
InBounds(x) == MinPort <= x /\ x <= MaxPort

parse_ports(txt) ==
    LET parts == Parts(txt)
        each == [k \in 1..Len(parts) |-> PartPorts(parts[k])]
    IN IF \E k \in 1..Len(parts) : ~each[k].ok
       THEN Raised
       ELSE LET all == UNION {each[k].set : k \in 1..Len(parts)}
            IN Returned(Sorted({x \in all : InBounds(x)}))

(***************************************************************************)
(* resolve, lines 49-76.                                                   *)
(***************************************************************************)
\* the value of the resolve variables where resolve is not called
ResolveUnused ==
    /\ force_ipv = "None"
    /\ lookup = <<>>
    /\ fam_i = 0
    /\ seen = <<>>
    /\ rstate = "not called"

FamilySet == {"AF_INET", "AF_INET6"}

\* lines 56-62
Families(force) ==
    IF force = "AF_INET" THEN <<"AF_INET">>
    ELSE IF force = "AF_INET6" THEN <<"AF_INET6">>
    ELSE <<"AF_INET", "AF_INET6">>

\* getaddrinfo raises socket.gaierror (ok = FALSE) or returns a non-empty
\* list of entries, here the ip of each entry, repetitions included
LookupResults ==
    {[ok |-> FALSE, ips |-> <<>>]} \cup
    {[ok |-> TRUE, ips |-> l] :
        l \in UNION {[1..n -> 1..MaxIps] : n \in 1..MaxLookup}}

\* variant: line 71 without the membership test
NotSeenAlways(sn, e) == TRUE

\* line 71: (family, ip) not in seen
NotSeen(sn, e) == e \notin Range(sn)

\* lines 68-72: the entries of one lookup, appended unless already seen
RECURSIVE AppendNew(_, _, _)
AppendNew(sn, fam, ips) ==
    IF ips = <<>> THEN sn
    ELSE LET e == <<fam, Head(ips)>>
         IN AppendNew(IF NotSeen(sn, e) THEN Append(sn, e) ELSE sn,
                      fam, Tail(ips))

\* variant: the except clause of line 73 leaves the loop (break)
AfterGaierrorBreak(k) == Len(Families(force_ipv)) + 1

\* lines 73-75: continue with the next family
AfterGaierror(k) == k + 1

\* lines 65-75, one iteration of the loop over families
ResolveFamily ==
    /\ pc = "resolve"
    /\ rstate = "running"
    /\ fam_i <= Len(Families(force_ipv))
    /\ LET fam == Families(force_ipv)[fam_i] IN
       IF lookup[fam].ok
       THEN /\ seen' = AppendNew(seen, fam, lookup[fam].ips)
            /\ fam_i' = fam_i + 1
       ELSE /\ seen' = seen
            /\ fam_i' = AfterGaierror(fam_i)
    /\ UNCHANGED <<mode, ports, addrs, workers, outcome, fault, pc, submitted,
                   queue, thread, fut, tried, connects, pendingFs, consumed,
                   open_ports, stdout, shutdown, parseVars, force_ipv, lookup,
                   rstate>>

\* line 76: return seen
ResolveReturn ==
    /\ pc = "resolve"
    /\ rstate = "running"
    /\ fam_i > Len(Families(force_ipv))
    /\ rstate' = "returned"
    /\ pc' = IF mode = "main" THEN "resolved" ELSE "returned"
    /\ UNCHANGED <<mode, ports, addrs, workers, outcome, fault, submitted,
                   queue, thread, fut, tried, connects, pendingFs, consumed,
                   open_ports, stdout, shutdown, parseVars, force_ipv, lookup,
                   fam_i, seen>>

(***************************************************************************)
(* try_port_on_addrs, lines 78-98.                                         *)
(***************************************************************************)
\* line 90: the sockaddr handed to connect_ex
SockAddr(cand, port) ==
    IF cand[1] = "AF_INET" THEN <<cand[2], port>> ELSE <<cand[2], port, 0, 0>>

\* variant: the test of line 92 taken as "connect_ex(sockaddr) is non-zero"
ConnectSucceedsNonZero(o) == o = "errno"

\* line 92: connect_ex(sockaddr) == 0
ConnectSucceeds(o) == o = "ok"

\* the attempt raises an exception (socket() or connect_ex)
Raises(o) == o \in {"connect_raises", "socket_raises"}

\* variant: socket() called outside the try block of line 85
CaughtConnectOnly(o) == o = "connect_raises"

\* line 94: except Exception catches whatever the attempt raises
Caught(o) == Raises(o)

\* variant: the worker itself adds the port it found open to open_ports
SetResultAppends(p, r) ==
    /\ fut' = [fut EXCEPT ![p] = r]
    /\ open_ports' = IF r = "true" THEN Append(open_ports, p) ELSE open_ports

\* the work item stores what the call returned or raised in its future and
\* writes nothing else
SetResult(p, r) ==
    /\ fut' = [fut EXCEPT ![p] = r]
    /\ UNCHANGED open_ports

\* One iteration of the loop of line 84 in worker thread t (or the return of
\* line 98 when the candidates are exhausted).
ProbeStep(t) ==
    /\ thread[t].st = "run"
    /\ LET p == thread[t].task
           port == thread[t].port
           i == thread[t].i
       IN /\ p \notin fault
          /\ IF i > Len(addrs)
             THEN \* line 98
                  /\ SetResult(p, "false")
                  /\ thread' = [thread EXCEPT ![t] = IdleThread]
                  /\ UNCHANGED <<tried, connects>>
             ELSE LET o == outcome[<<i, port>>] IN
                  /\ tried' = [tried EXCEPT ![p] = Append(@, addrs[i])]
                  /\ connects' = [connects EXCEPT ![p] =
                         IF o = "socket_raises" THEN @
                         ELSE Append(@, SockAddr(addrs[i], port))]
                  /\ IF ConnectSucceeds(o)
                     THEN \* line 93
                          /\ SetResult(p, "true")
                          /\ thread' = [thread EXCEPT ![t] = IdleThread]
                     ELSE IF Raises(o) /\ ~Caught(o)
                     THEN \* an exception that leaves the function
                          /\ SetResult(p, "exception")
                          /\ thread' = [thread EXCEPT ![t] = IdleThread]
                     ELSE \* lines 92 (non-zero) and 94-97
                          /\ thread' = [thread EXCEPT ![t].i = i + 1]
                          /\ UNCHANGED <<fut, open_ports>>
    /\ UNCHANGED <<mode, ports, addrs, workers, outcome, fault, pc, submitted,
                   queue, pendingFs, consumed, stdout, shutdown,
                   parseVars, resolveVars>>

(***************************************************************************)
(* The thread pool of lines 144-146.                                       *)
(***************************************************************************)
NumThreads == Cardinality({t \in Threads : thread[t].st # "unstarted"})
Running == {t \in Threads : thread[t].st = "run"}

\* variant: one thread fewer than max_workers
CanSpawnOffByOne == NumThreads + 1 < workers

\* variant: a pool sized independently of args.workers
CanSpawnFixedPool == NumThreads < MaxWorkers

\* ThreadPoolExecutor starts a further thread only below max_workers
CanSpawn == NumThreads < workers

SomeIdle == \E t \in Threads : thread[t].st = "idle"

\* line 146, one ex.submit(try_port_on_addrs, addrs, port, timeout)
Submit ==
    /\ mode = "scan"
    /\ pc = "submit"
    /\ submitted < Len(ports)
    /\ LET p == ports[submitted + 1] IN
       /\ fut' = [fut EXCEPT ![p] = "pending"]
       /\ queue' = Append(queue, p)
       /\ submitted' = submitted + 1
       /\ pendingFs' = pendingFs \cup {p}
       /\ IF ~SomeIdle /\ CanSpawn
          THEN LET t == CHOOSE u \in Threads : thread[u].st = "unstarted"
               IN thread' = [thread EXCEPT ![t] = IdleThread]
          ELSE UNCHANGED thread
       \* line 147: as_completed(futures) once the dict is built
       /\ pc' = IF submitted + 1 = Len(ports) THEN "collect" ELSE "submit"
    /\ UNCHANGED <<mode, ports, addrs, workers, outcome, fault, tried,
                   connects, consumed, open_ports, stdout, shutdown,
                   parseVars, resolveVars>>

\* variant: the task reads the loop variable of line 146 when it starts
TaskPortLate(p) == ports[submitted]

\* the port argument bound by ex.submit(try_port_on_addrs, addrs, port, ..)
\* for the task of port p
TaskPort(p) == p

\* a worker thread takes the next work item and starts the call
WorkerTake(t) ==
    /\ thread[t].st = "idle"
    /\ queue # <<>>
    /\ LET p == Head(queue) IN
       /\ queue' = Tail(queue)
       /\ fut' = [fut EXCEPT ![p] = "running"]
       /\ thread' = [thread EXCEPT ![t] =
              [st |-> "run", task |-> p, port |-> TaskPort(p), i |-> 1]]
    /\ UNCHANGED <<mode, ports, addrs, workers, outcome, fault, pc, submitted,
                   tried, connects, pendingFs, consumed, open_ports, stdout,
                   shutdown, parseVars, resolveVars>>

\* the call raises an unexpected error outside the per-address try block;
\* the work item stores the exception in the future
TaskFault(t) ==
    /\ thread[t].st = "run"
    /\ thread[t].task \in fault
    /\ SetResult(thread[t].task, "exception")
    /\ thread' = [thread EXCEPT ![t] = IdleThread]
    /\ UNCHANGED <<mode, ports, addrs, workers, outcome, fault, pc, submitted,
                   queue, tried, connects, pendingFs, consumed,
                   stdout, shutdown, parseVars, resolveVars>>

Finished(p) == fut[p] \in {"true", "false", "exception"}

\* variant: the yielded future stays in the pending set
YieldFutureKeeps(p) == pendingFs' = pendingFs

\* as_completed removes the future it yields from its pending set
YieldFuture(p) == pendingFs' = pendingFs \ {p}

\* variant: the result attributed to the port at the same position of the
\* submission order
HandleResultByOrder(p) ==
    IF fut[p] = "exception"
    THEN UNCHANGED <<open_ports, stdout, pc>>
    ELSE IF fut[p] = "true"
         THEN /\ stdout' = Append(stdout, <<"open", ports[Len(consumed) + 1]>>)
              /\ open_ports' = Append(open_ports, ports[Len(consumed) + 1])
              /\ UNCHANGED pc
         ELSE UNCHANGED <<open_ports, stdout, pc>>

\* variant: the loop body without the try/except of lines 149-155
HandleResultNoCatch(p) ==
    IF fut[p] = "exception"
    THEN /\ pc' = "crashed"
         /\ UNCHANGED <<open_ports, stdout>>
    ELSE IF fut[p] = "true"
         THEN /\ stdout' = Append(stdout, <<"open", p>>)
              /\ open_ports' = Append(open_ports, p)
              /\ UNCHANGED pc
         ELSE UNCHANGED <<open_ports, stdout, pc>>

\* lines 149-155: the body of the loop for the future of port p
HandleResult(p) ==
    IF fut[p] = "exception"
    THEN \* fut.result() raises, caught by line 153
         UNCHANGED <<open_ports, stdout, pc>>
    ELSE IF fut[p] = "true"
         THEN /\ stdout' = Append(stdout, <<"open", p>>)
              /\ open_ports' = Append(open_ports, p)
              /\ UNCHANGED pc
         ELSE UNCHANGED <<open_ports, stdout, pc>>

\* the number of results the loop of line 147 has consumed
totalPortsScanned == Len(consumed)

\* lines 147-155, one iteration: as_completed yields a finished future
Collect(p) ==
    /\ mode = "scan"
    /\ pc = "collect"
    /\ p \in pendingFs
    /\ Finished(p)
    /\ YieldFuture(p)
    /\ consumed' = Append(consumed, p)   \* line 148
    /\ HandleResult(p)
    /\ UNCHANGED <<mode, ports, addrs, workers, outcome, fault, submitted,
                   queue, thread, fut, tried, connects, shutdown, parseVars, resolveVars>>

\* variant: the loop of line 147 left after the first result
AllYieldedFirst == consumed # <<>>

\* as_completed has yielded every future
AllYielded == pendingFs = {}

\* as_completed is exhausted; the with block exits: shutdown(wait=True)
Shutdown ==
    /\ mode = "scan"
    /\ pc = "collect"
    /\ AllYielded
    /\ shutdown' = TRUE
    /\ pc' = "join"
    /\ UNCHANGED <<mode, ports, addrs, workers, outcome, fault, submitted,
                   queue, thread, fut, tried, connects, pendingFs, consumed,
                   open_ports, stdout, parseVars, resolveVars>>

\* a worker thread leaves its loop after shutdown
WorkerExit(t) ==
    /\ shutdown
    /\ thread[t].st = "idle"
    /\ queue = <<>>
    /\ thread' = [thread EXCEPT ![t].st = "exited"]
    /\ UNCHANGED <<mode, ports, addrs, workers, outcome, fault, pc, submitted,
                   queue, fut, tried, connects, pendingFs, consumed,
                   open_ports, stdout, shutdown,
                   parseVars, resolveVars>>

\* lines 157-164 after the threads are joined
Summary ==
    /\ mode = "scan"
    /\ pc = "join"
    /\ \A t \in Threads : thread[t].st \in {"unstarted", "exited"}
    /\ stdout' = Append(stdout, <<"summary", Sorted(Range(open_ports))>>)
    /\ pc' = "done"
    /\ UNCHANGED <<mode, ports, addrs, workers, outcome, fault, submitted,
                   queue, thread, fut, tried, connects, pendingFs, consumed,
                   open_ports, shutdown, parseVars, resolveVars>>

(***************************************************************************)
(* The scan of main from line 143 on.                                      *)
(***************************************************************************)
PortList(n) == [k \in 1..n |-> k]

ScanOutcomes == {"ok", "errno"}

Init ==
    /\ mode = "scan"
    /\ \E n \in 1..MaxPorts : ports = PortList(n)
    /\ \E c \in 1..MaxAddrs : addrs = [k \in 1..c |-> Candidate(k)]
    /\ Len(ports) * Len(addrs) <= MaxAttempts
    /\ workers \in 1..MaxWorkers
    /\ outcome \in [(1..Len(addrs)) \X Range(ports) -> ScanOutcomes]
    /\ fault \in {S \in SUBSET Range(ports) : Cardinality(S) <= 1}
    /\ pc = "submit"
    /\ submitted = 0
    /\ queue = <<>>
    /\ thread = [t \in Threads |-> NoThread]
    /\ fut = [p \in Range(ports) |-> "unsubmitted"]
    /\ tried = [p \in Range(ports) |-> <<>>]
    /\ connects = [p \in Range(ports) |-> <<>>]
    /\ pendingFs = {}
    /\ consumed = <<>>
    /\ open_ports = <<>>
    /\ stdout = <<>>
    /\ shutdown = FALSE
    /\ text = <<>>
    /\ parsed = NotCalled
    /\ reparsed = NotCalled
    /\ ResolveUnused

Next ==
    \/ Submit
    \/ \E t \in Threads : WorkerTake(t)
    \/ \E t \in Threads : ProbeStep(t)
    \/ \E t \in Threads : TaskFault(t)
    \/ \E p \in Range(ports) : Collect(p)
    \/ Shutdown
    \/ \E t \in Threads : WorkerExit(t)
    \/ Summary

Spec == Init /\ [][Next]_vars

\* the main thread and every worker thread keep running while they can: a
\* connect attempt ends (timeout of line 88) and a runnable thread is
\* scheduled
MainStep == Submit \/ (\E p \in Range(ports) : Collect(p)) \/ Shutdown \/ Summary

WorkerStep(t) == WorkerTake(t) \/ ProbeStep(t) \/ TaskFault(t) \/ WorkerExit(t)

Fairness == WF_vars(MainStep) /\ \A t \in Threads : WF_vars(WorkerStep(t))

SpecLive == Init /\ [][Next]_vars /\ Fairness

(***************************************************************************)
(* try_port_on_addrs called on its own, for one port and any candidate     *)
(* list, the empty one included.                                           *)
(***************************************************************************)
InitProbe ==
    /\ mode = "probe"
    /\ \E p \in 1..MaxPorts : ports = <<p>>
    /\ \E c \in 0..MaxProbeAddrs : addrs = [k \in 1..c |-> Candidate(k)]
    /\ workers = 1
    /\ outcome \in [(1..Len(addrs)) \X Range(ports) -> Outcomes]
    /\ fault = {}
    /\ pc = "call"
    /\ submitted = 0
    /\ queue = <<>>
    /\ thread = [t \in Threads |->
                   IF t = 1
                   THEN [st |-> "run", task |-> ports[1], port |-> ports[1],
                         i |-> 1]
                   ELSE NoThread]
    /\ fut = [p \in Range(ports) |-> "running"]
    /\ tried = [p \in Range(ports) |-> <<>>]
    /\ connects = [p \in Range(ports) |-> <<>>]
    /\ pendingFs = {}
    /\ consumed = <<>>
    /\ open_ports = <<>>
    /\ stdout = <<>>
    /\ shutdown = FALSE
    /\ text = <<>>
    /\ parsed = NotCalled
    /\ reparsed = NotCalled
    /\ ResolveUnused

NextProbe == \E t \in Threads : ProbeStep(t)

SpecProbe == InitProbe /\ [][NextProbe]_vars

(***************************************************************************)
(* parse_ports called on its own.  The texts are comma lists of up to      *)
(* MaxTokens tokens of Vocabulary.                                         *)
(***************************************************************************)
MaxTokens == 3

Vocabulary ==
    { <<"2", "2">>,
      <<"8", "0", "-", "8", "2">>,
      <<"8", "0">>,
      <<"a", "b", "c">>,
      <<>>,
      <<" ", "8", "1", " ">>,
      <<"1", "-", "-", "2">>,
      <<"1", "-", "2", "-", "3">>,
      <<"7", "0", "0", "0", "0">>,
      <<"0">>,
      <<"8", "2", "-", "8", "0">>,
      <<"6", "5", "5", "3", "4", "-", "6", "5", "5", "3", "7">>,
      <<"-", "5">>,
      <<"0", "-", "1">>,
      <<"+", "7">>,
      <<" ">> }

\* ",".join(tokens)
RECURSIVE Join(_)
Join(toks) ==
    IF Len(toks) = 0 THEN <<>>
    ELSE IF Len(toks) = 1 THEN toks[1]
    ELSE toks[1] \o <<",">> \o Join(Tail(toks))

Texts == {Join(toks) : toks \in UNION {[1..n -> Vocabulary] : n \in 1..MaxTokens}}

InitParse ==
    /\ mode = "parse"
    /\ text \in Texts
    /\ parsed = NotCalled
    /\ reparsed = NotCalled
    /\ ResolveUnused
    /\ ports = <<>>
    /\ addrs = <<>>
    /\ workers = 1
    /\ outcome = <<>>
    /\ fault = {}
    /\ pc = "call"
    /\ submitted = 0
    /\ queue = <<>>
    /\ thread = [t \in Threads |-> NoThread]
    /\ fut = <<>>
    /\ tried = <<>>
    /\ connects = <<>>
    /\ pendingFs = {}
    /\ consumed = <<>>
    /\ open_ports = <<>>
    /\ stdout = <<>>
    /\ shutdown = FALSE

\* line 114: parse_ports(args.ports)
CallParsePorts ==
    /\ mode = "parse"
    /\ pc = "call"
    /\ parsed' = parse_ports(text)
    /\ pc' = "returned"
    /\ UNCHANGED <<mode, ports, addrs, workers, outcome, fault, submitted,
                   queue, thread, fut, tried, connects, pendingFs, consumed,
                   open_ports, stdout, shutdown, text, reparsed,
                   resolveVars>>

\* str(n) of line 161
RECURSIVE Str(_)
Str(n) ==
    IF n < 0 THEN <<"-">> \o Str(0 - n)
    ELSE IF n < 10 THEN <<Digits[n + 1]>>
    ELSE Str(n \div 10) \o <<Digits[(n % 10) + 1]>>

\* the comma-joined text of a list of ports
Canonical(v) == Join([k \in 1..Len(v) |-> Str(v[k])])

\* parse_ports called on the text of its own non-empty result
Reparse ==
    /\ mode = "parse"
    /\ pc = "returned"
    /\ parsed.state = "returned"
    /\ parsed.value # <<>>
    /\ reparsed' = parse_ports(Canonical(parsed.value))
    /\ pc' = "reparsed"
    /\ UNCHANGED <<mode, ports, addrs, workers, outcome, fault, submitted,
                   queue, thread, fut, tried, connects, pendingFs, consumed,
                   open_ports, stdout, shutdown, text, parsed, resolveVars>>

NextParse == CallParsePorts \/ Reparse

SpecParse == InitParse /\ [][NextParse]_vars

(***************************************************************************)
(* Properties of the scan (Spec).                                          *)
(***************************************************************************)
NoDuplicates(s) == \A i, j \in 1..Len(s) : i # j => s[i] # s[j]

AllTasksFinished == \A p \in Range(ports) : Finished(p)

\* C1: scan records exactly one result per requested port under every
\* interleaving: no port is consumed or reported open twice, none is dropped,
\* and once the loop has ended totalPortsScanned (the number of results
\* consumed) equals the number of input ports, whatever is open or failed.
C1_OneResultPerPort ==
    mode = "scan" =>
        /\ NoDuplicates(consumed)
        /\ NoDuplicates(open_ports)
        /\ Range(consumed) \subseteq Range(ports)
        /\ totalPortsScanned <= Len(ports)
        /\ pc \in {"join", "done"} =>
              /\ totalPortsScanned = Len(ports)
              /\ Range(consumed) = Range(ports)

\* a finished scan of several ports with an open port, a closed port and a
\* failed task
C1_Witness ==
    /\ pc = "done"
    /\ Len(ports) >= 3
    /\ fault # {}
    /\ open_ports # <<>>
    /\ \E p \in Range(ports) : fut[p] = "false"
    /\ totalPortsScanned = Len(ports)

\* C2: at every instant the number of probe tasks that are executing is at
\* most concurrencyLimit (args.workers), also with more ports than workers.
C2_BoundedConcurrency ==
    mode = "scan" =>
        /\ Cardinality({p \in Range(ports) : fut[p] = "running"}) <= workers
        /\ Cardinality(Running) <= workers

\* the pool is saturated: more ports than workers, every worker busy and a
\* task waiting in the queue
C2_Witness ==
    /\ mode = "scan"
    /\ Len(ports) > workers
    /\ workers >= 2
    /\ Cardinality({p \in Range(ports) : fut[p] = "running"}) = workers
    /\ queue # <<>>

\* the ports that the inputs say are open: the task has no internal error
\* and some candidate accepts the connection
OpenByInputs ==
    {p \in Range(ports) :
        p \notin fault /\ \E i \in 1..Len(addrs) : outcome[<<i, p>>] = "ok"}

\* C3: for the same ports, candidates and connect outcomes the final
\* openPorts set is the same for every concurrencyLimit, 1 and the number of
\* ports included, and every interleaving: it is determined by the inputs.
C3_SameOpenPortsForAnyLimit ==
    (mode = "scan" /\ pc = "done") => Range(open_ports) = OpenByInputs

\* a finished scan with as many workers as ports, whose results arrived out
\* of submission order
C3_Witness ==
    /\ pc = "done"
    /\ workers = Len(ports)
    /\ Len(ports) >= 2
    /\ consumed # ports
    /\ open_ports # <<>>
    /\ Range(open_ports) # Range(ports)

SummaryPrinted == \E k \in 1..Len(stdout) : stdout[k][1] = "summary"

\* C4 as stated: nothing about the open ports is reported while some task is
\* still pending or running.
C4_NothingReportedBeforeBarrier ==
    (mode = "scan" /\ stdout # <<>>) => AllTasksFinished

\* C4, amended: the final summary is produced only after every submitted
\* task has completed and its result was consumed, and after the workers are
\* gone; it is the last line and lists exactly the open ports found.
C4_SummaryAfterBarrier ==
    (mode = "scan" /\ (SummaryPrinted \/ pc = "done")) =>
        /\ AllTasksFinished
        /\ queue = <<>>
        /\ Running = {}
        /\ Range(consumed) = Range(ports)
        /\ stdout[Len(stdout)] = <<"summary", Sorted(Range(open_ports))>>
        /\ \A k \in 1..(Len(stdout) - 1) : stdout[k][1] = "open"

\* a summary printed after several open ports were reported one by one
C4_Witness ==
    /\ SummaryPrinted
    /\ Len(ports) >= 2
    /\ Len(stdout) >= 3

\* C5: a task that fails with an internal error does not abort the scan: no
\* exception leaves the loop, the scan still ends with every other task
\* completed and aggregated, and the failing port is not in open_ports.
C5_FailureIsolated ==
    mode = "scan" =>
        /\ pc # "crashed"
        /\ \A p \in fault : p \notin Range(open_ports)
        /\ (pc = "done" /\ fault # {}) =>
              /\ \A p \in fault : fut[p] = "exception" /\ p \in Range(consumed)
              /\ \A q \in Range(ports) \ fault :
                    /\ fut[q] \in {"true", "false"}
                    /\ q \in Range(consumed)
                    /\ fut[q] = "true" => q \in Range(open_ports)

\* a finished scan where one task failed and another port was found open
C5_Witness ==
    /\ pc = "done"
    /\ fault # {}
    /\ \E q \in Range(ports) \ fault : q \in Range(open_ports)
    /\ \E p \in fault : fut[p] = "exception"

(***************************************************************************)
(* Properties of try_port_on_addrs (SpecProbe).                            *)
(***************************************************************************)
\* the index of the first candidate whose connect succeeds for port p, the
\* length of the list when there is none
FirstSuccess(p) ==
    IF \E i \in 1..Len(addrs) : outcome[<<i, p>>] = "ok"
    THEN CHOOSE i \in 1..Len(addrs) :
             /\ outcome[<<i, p>>] = "ok"
             /\ \A j \in 1..(i - 1) : outcome[<<j, p>>] # "ok"
    ELSE Len(addrs)

Returned_(p) == fut[p] \in {"true", "false"}

\* C6: the candidates are tried in the given order, each at most once, and
\* never beyond the first candidate whose connect succeeds: the candidates
\* tried are a prefix of the list that ends at the first success when the
\* probe has returned.
C6_ShortCircuit ==
    mode = "probe" =>
        \A p \in Range(ports) :
            /\ Len(tried[p]) <= FirstSuccess(p)
            /\ tried[p] = SubSeq(addrs, 1, Len(tried[p]))
            /\ Len(connects[p]) <= Len(tried[p])
            /\ Finished(p) => Len(tried[p]) = FirstSuccess(p)

\* a probe that returned true at a candidate that is neither the first nor
\* the last
C6_Witness ==
    /\ mode = "probe"
    /\ \E p \in Range(ports) :
          /\ fut[p] = "true"
          /\ Len(tried[p]) >= 2
          /\ Len(tried[p]) < Len(addrs)

\* C7: no candidate failure reaches the caller: the probe never ends with an
\* exception, it returns false exactly when every candidate was tried and
\* none connected (also for the empty list), and true otherwise.
C7_FailuresSwallowed ==
    mode = "probe" =>
        \A p \in Range(ports) :
            /\ fut[p] # "exception"
            /\ fut[p] = "false" =>
                  /\ tried[p] = addrs
                  /\ \A i \in 1..Len(addrs) : outcome[<<i, p>>] # "ok"
            /\ fut[p] = "true" =>
                  \E i \in 1..Len(addrs) : outcome[<<i, p>>] = "ok"
            /\ (\A t \in Threads : thread[t].st # "run") => Returned_(p)

\* a probe that returned false after its candidates failed in different
\* ways, a failing socket() included
C7_Witness ==
    /\ mode = "probe"
    /\ \E p \in Range(ports) :
          /\ fut[p] = "false"
          /\ Len(addrs) >= 2
          /\ \E i \in 1..Len(addrs) : outcome[<<i, p>>] = "socket_raises"
          /\ \E i \in 1..Len(addrs) : outcome[<<i, p>>] = "connect_raises"

(***************************************************************************)
(* Properties of parse_ports (SpecParse).                                  *)
(***************************************************************************)
StrictlyIncreasing(s) == \A k \in 1..(Len(s) - 1) : s[k] < s[k + 1]

\* the comma-separated tokens of a text, trimmed
Tokens(txt) ==
    LET pieces == Split(txt, ",")
    IN [k \in 1..Len(pieces) |-> Strip(pieces[k])]

AllDigits(s) == s # <<>> /\ \A k \in 1..Len(s) : IsDigit(s[k])
DashCount(s) == Cardinality({k \in 1..Len(s) : s[k] = "-"})

\* a token 'n' or 'a-b' of decimal digits
WellFormedToken(tok) ==
    \/ AllDigits(tok)
    \/ /\ DashCount(tok) = 1
       /\ AllDigits(SplitDash(tok)[1])
       /\ AllDigits(SplitDash(tok)[2])

WellFormed(txt) ==
    \A k \in 1..Len(Tokens(txt)) : WellFormedToken(Tokens(txt)[k])

\* the integers a well-formed token stands for
TokenSet(tok) ==
    IF AllDigits(tok) THEN {DigitsValue(tok)}
    ELSE {n \in DigitsValue(SplitDash(tok)[1])..DigitsValue(SplitDash(tok)[2]) :
             TRUE}

ExpectedPorts(txt) ==
    (UNION {TokenSet(Tokens(txt)[k]) : k \in 1..Len(Tokens(txt))})
        \cap (MinPort..MaxPort)

\* "22,80-82,80"
ExampleText ==
    <<"2", "2", ",", "8", "0", "-", "8", "2", ",", "8", "0">>

\* C8: for every text that parse_ports accepts, the returned list is
\* strictly increasing (sorted, no duplicates) and within [1, 65535].
C8_SortedUniqueInBounds ==
    (mode = "parse" /\ parsed.state = "returned") =>
        /\ StrictlyIncreasing(parsed.value)
        /\ \A k \in 1..Len(parsed.value) :
              parsed.value[k] >= 1 /\ parsed.value[k] <= 65535

\* an accepted text with at least two surviving ports from which a value was
\* filtered out or a repetition collapsed
C8_Witness ==
    /\ mode = "parse"
    /\ parsed.state = "returned"
    /\ Len(parsed.value) >= 2
    /\ \E k \in 1..Len(Parts(text)) :
          \E x \in PartPorts(Parts(text)[k]).set : x < 1 \/ x > 65535
    /\ \E k, m \in 1..Len(Parts(text)) :
          k # m /\ PartPorts(Parts(text)[k]).set
                     \cap PartPorts(Parts(text)[m]).set # {}

\* C9: for a well-formed text parse_ports returns the ascending sequence of
\* the union of its tokens (a-b gives a..b, nothing when a > b; n gives n)
\* intersected with [1, 65535]; "22,80-82,80" gives [22, 80, 81, 82].
C9_UnionOfTokens ==
    (mode = "parse" /\ pc = "returned" /\ WellFormed(text)) =>
        /\ parsed.state = "returned"
        /\ StrictlyIncreasing(parsed.value)
        /\ Range(parsed.value) = ExpectedPorts(text)
        /\ text = ExampleText => parsed.value = <<22, 80, 81, 82>>

\* the example of the specification, parsed
C9_Witness ==
    /\ mode = "parse"
    /\ pc = "returned"
    /\ text = ExampleText
    /\ parsed = Returned(<<22, 80, 81, 82>>)

\* a token with a character that is no digit, sign, underscore or blank
NonNumeric(tok) ==
    \E k \in 1..Len(tok) :
        ~IsDigit(tok[k]) /\ ~IsSpace(tok[k]) /\ tok[k] \notin {"-", "+", "_"}

\* C10: parse_ports fails the whole parse, returning no list, whenever some
\* token is non-numeric or has more than one dash, wherever it stands.
C10_MalformedTokenFails ==
    (mode = "parse" /\ pc = "returned"
       /\ \E k \in 1..Len(Tokens(text)) :
             NonNumeric(Tokens(text)[k]) \/ DashCount(Tokens(text)[k]) > 1)
    => parsed = Raised

\* the text with its empty tokens left out
NonEmptyTokens(txt) == SelectSeq(Tokens(txt), LAMBDA q : q # <<>>)

HasEmptyToken(txt) == \E k \in 1..Len(Tokens(txt)) : Tokens(txt)[k] = <<>>

\* "22,,80"
EmptyTokenText == <<"2", "2", ",", ",", "8", "0">>

\* C11 as stated: a text with an empty token (adjacent commas, a leading or
\* trailing comma, a token of blanks) fails the whole parse.
C11_EmptyTokenFails ==
    (mode = "parse" /\ pc = "returned" /\ HasEmptyToken(text))
    => parsed = Raised

\* C11, amended: an empty token is dropped silently; a text that has one
\* parses exactly like the text without its empty tokens, so with the other
\* tokens well-formed it returns their union and "22,,80" gives [22, 80].
C11_EmptyTokenSkipped ==
    (mode = "parse" /\ pc = "returned" /\ HasEmptyToken(text)) =>
        /\ parsed = parse_ports(Join(NonEmptyTokens(text)))
        /\ (\A k \in 1..Len(NonEmptyTokens(text)) :
               WellFormedToken(NonEmptyTokens(text)[k]))
           => /\ parsed.state = "returned"
              /\ Range(parsed.value) =
                     (UNION {TokenSet(NonEmptyTokens(text)[k]) :
                                k \in 1..Len(NonEmptyTokens(text))})
                         \cap (MinPort..MaxPort)
        /\ text = EmptyTokenText => parsed = Returned(<<22, 80>>)

\* "22,,80" parsed to [22, 80]
C11_Witness ==
    /\ mode = "parse"
    /\ pc = "returned"
    /\ text = EmptyTokenText
    /\ HasEmptyToken(text)
    /\ parsed = Returned(<<22, 80>>)

\* every token is an integer outside [1, 65535]
AllOutOfBounds(txt) ==
    \A k \in 1..Len(Tokens(txt)) :
        /\ AllDigits(Tokens(txt)[k])
        /\ DigitsValue(Tokens(txt)[k]) \notin MinPort..MaxPort

\* C12: integers outside [1, 65535] are filtered out, not rejected: a text
\* whose tokens are all integers out of bounds ("70000", "0") returns the
\* empty list and raises nothing.
C12_OutOfBoundsFiltered ==
    (mode = "parse" /\ pc = "returned" /\ AllOutOfBounds(text))
    => parsed = Returned(<<>>)

\* "70000,0" parsed to the empty list
C12_Witness ==
    /\ mode = "parse"
    /\ pc = "returned"
    /\ text = <<"7", "0", "0", "0", "0", ",", "0">>
    /\ AllOutOfBounds(text)
    /\ parsed = Returned(<<>>)

\* C13: parse_ports is idempotent on its canonical output: for every
\* accepted text with a non-empty result, parsing the comma-joined result
\* again returns the same sequence.
C13_Idempotent ==
    (mode = "parse" /\ pc = "reparsed") => reparsed = parsed

\* a re-parsed result of several ports that came from a text which was not
\* canonical itself
C13_Witness ==
    /\ mode = "parse"
    /\ pc = "reparsed"
    /\ Len(parsed.value) >= 3
    /\ text # Canonical(parsed.value)
    /\ reparsed = parsed

(***************************************************************************)
(* resolve called on its own.                                              *)
(***************************************************************************)
InitResolve ==
    /\ mode = "resolve"
    /\ force_ipv \in {"None", "AF_INET", "AF_INET6"}
    /\ lookup \in [FamilySet -> LookupResults]
    /\ fam_i = 1
    /\ seen = <<>>
    /\ rstate = "running"
    /\ pc = "resolve"
    /\ text = <<>>
    /\ parsed = NotCalled
    /\ reparsed = NotCalled
    /\ ports = <<>>
    /\ addrs = <<>>
    /\ workers = 1
    /\ outcome = <<>>
    /\ fault = {}
    /\ submitted = 0
    /\ queue = <<>>
    /\ thread = [t \in Threads |-> NoThread]
    /\ fut = <<>>
    /\ tried = <<>>
    /\ connects = <<>>
    /\ pendingFs = {}
    /\ consumed = <<>>
    /\ open_ports = <<>>
    /\ stdout = <<>>
    /\ shutdown = FALSE

NextResolve == ResolveFamily \/ ResolveReturn

SpecResolve == InitResolve /\ [][NextResolve]_vars

(***************************************************************************)
(* Properties of resolve (SpecResolve).                                    *)
(***************************************************************************)
\* the entries of a list without those that repeat an earlier entry
FirstSeen(l) ==
    LET keep == {k \in 1..Len(l) : \A m \in 1..(k - 1) : l[m] # l[k]}
    IN [j \in 1..Cardinality(keep) |->
           l[CHOOSE k \in keep : Cardinality({m \in keep : m <= k}) = j]]

\* what the lookup of one family contributes to the result
Contribution(fam) ==
    IF lookup[fam].ok
    THEN [j \in 1..Len(FirstSeen(lookup[fam].ips)) |->
             <<fam, FirstSeen(lookup[fam].ips)[j]>>]
    ELSE <<>>

OfFamily(sn, fam) == SelectSeq(sn, LAMBDA e : e[1] = fam)

\* C14: with both families requested the list has every IPv4 candidate
\* before every IPv6 candidate, keeps the order of the lookup inside each
\* family (first seen wins) and has no (family, address) pair twice.
C14_Ipv4FirstNoDuplicates ==
    (mode = "resolve" /\ force_ipv = "None") =>
        /\ NoDuplicates(seen)
        /\ \A i, j \in 1..Len(seen) :
              (seen[i][1] = "AF_INET6" /\ seen[j][1] = "AF_INET") => j < i
        /\ rstate = "returned" =>
              \A fam \in FamilySet : OfFamily(seen, fam) = Contribution(fam)

\* both families resolved, a lookup returned an address twice
C14_Witness ==
    /\ mode = "resolve"
    /\ force_ipv = "None"
    /\ rstate = "returned"
    /\ \A fam \in FamilySet : lookup[fam].ok
    /\ \E fam \in FamilySet :
          Len(FirstSeen(lookup[fam].ips)) < Len(lookup[fam].ips)
    /\ Len(seen) >= 3

\* the contributions of the first n requested families, in order
RECURSIVE Gathered(_)
Gathered(n) ==
    IF n = 0 THEN <<>>
    ELSE Gathered(n - 1) \o Contribution(Families(force_ipv)[n])

\* C16: a failed lookup is absorbed: resolve does not raise, the failing
\* family adds nothing, every later family is still looked up and what was
\* collected before is kept; IPv4 failing and IPv6 succeeding returns exactly
\* the IPv6 candidates.
C16_FailedLookupAbsorbed ==
    mode = "resolve" =>
        /\ rstate # "raised"
        /\ fam_i <= Len(Families(force_ipv)) + 1
        /\ seen = Gathered(fam_i - 1)
        /\ rstate = "returned" => fam_i = Len(Families(force_ipv)) + 1
        /\ (rstate = "returned" /\ force_ipv = "None"
              /\ ~lookup["AF_INET"].ok /\ lookup["AF_INET6"].ok)
           => seen = Contribution("AF_INET6")

\* the IPv4 lookup failed and the result is the IPv6 candidates
C16_Witness ==
    /\ mode = "resolve"
    /\ rstate = "returned"
    /\ force_ipv = "None"
    /\ ~lookup["AF_INET"].ok
    /\ lookup["AF_INET6"].ok
    /\ seen # <<>>
    /\ \A k \in 1..Len(seen) : seen[k][1] = "AF_INET6"

(***************************************************************************)
(* main, lines 100-164: parse the ports, resolve the target, scan.  The    *)
(* well-known preset of line 114 is left out.                              *)
(***************************************************************************)
MaxMainWorkers == 2

\* lines 119-124
Prefer(ipv4, ipv6) ==
    IF ipv6 THEN "AF_INET6" ELSE IF ipv4 THEN "AF_INET" ELSE "None"

\* variant: main without the test of line 115
NoPortsNever(v) == FALSE

\* line 115: not ports
NoPorts(v) == v = <<>>

\* variant: main without the test of line 128
AddrsEmptyNever(a) == FALSE

\* line 128: not addrs
AddrsEmpty(a) == a = <<>>

\* "1", "1-2", "", "0", "a"
MainTexts ==
    { <<"1">>, <<"1", "-", "2">>, <<>>, <<"0">>, <<"a">> }

MainLookupResults ==
    { [ok |-> FALSE, ips |-> <<>>], [ok |-> TRUE, ips |-> <<1>>] }

InitMain ==
    /\ mode = "main"
    /\ pc = "parse"
    /\ text \in MainTexts
    /\ \E ipv4, ipv6 \in BOOLEAN : force_ipv = Prefer(ipv4, ipv6)
    /\ lookup \in [FamilySet -> MainLookupResults]
    /\ workers \in 0..MaxMainWorkers
    /\ parsed = NotCalled
    /\ reparsed = NotCalled
    /\ fam_i = 0
    /\ seen = <<>>
    /\ rstate = "not called"
    /\ ports = <<>>
    /\ addrs = <<>>
    /\ outcome = <<>>
    /\ fault = {}
    /\ submitted = 0
    /\ queue = <<>>
    /\ thread = [t \in Threads |-> NoThread]
    /\ fut = <<>>
    /\ tried = <<>>
    /\ connects = <<>>
    /\ pendingFs = {}
    /\ consumed = <<>>
    /\ open_ports = <<>>
    /\ stdout = <<>>
    /\ shutdown = FALSE

\* lines 114-127: parse the ports, leave when there is none, call resolve.
\* A ValueError of parse_ports is not caught: the program ends with a
\* traceback.
MainParse ==
    /\ mode = "main"
    /\ pc = "parse"
    /\ LET r == parse_ports(text) IN
       /\ parsed' = r
       /\ IF r.state = "raised"
          THEN /\ pc' = "traceback"
               /\ UNCHANGED <<ports, fam_i, rstate>>
          ELSE IF NoPorts(r.value)
          THEN \* lines 116-117
               /\ pc' = "exit_no_ports"
               /\ ports' = r.value
               /\ UNCHANGED <<fam_i, rstate>>
          ELSE \* line 127
               /\ ports' = r.value
               /\ pc' = "resolve"
               /\ fam_i' = 1
               /\ rstate' = "running"
    /\ UNCHANGED <<mode, addrs, workers, outcome, fault, submitted, queue,
                   thread, fut, tried, connects, pendingFs, consumed,
                   open_ports, stdout, shutdown, text, reparsed, force_ipv,
                   lookup, seen>>

\* lines 127-144: take the result of resolve, leave when it is empty,
\* otherwise create the pool; ThreadPoolExecutor raises ValueError for
\* max_workers <= 0.  The connect outcomes of the scan are fixed here.
MainCheckAddrs ==
    /\ mode = "main"
    /\ pc = "resolved"
    /\ addrs' = seen
    /\ IF AddrsEmpty(seen)
       THEN \* lines 129-131
            /\ pc' = "exit_unresolved"
            /\ UNCHANGED <<mode, outcome, fault, fut, tried, connects>>
       ELSE IF workers <= 0
       THEN /\ pc' = "traceback"
            /\ UNCHANGED <<mode, outcome, fault, fut, tried, connects>>
       ELSE /\ mode' = "scan"
            /\ pc' = "submit"
            /\ outcome' \in [(1..Len(seen)) \X Range(ports) -> ScanOutcomes]
            /\ fault' \in {S \in SUBSET Range(ports) : Cardinality(S) <= 1}
            /\ fut' = [p \in Range(ports) |-> "unsubmitted"]
            /\ tried' = [p \in Range(ports) |-> <<>>]
            /\ connects' = [p \in Range(ports) |-> <<>>]
    /\ UNCHANGED <<ports, workers, submitted, queue, thread, pendingFs,
                   consumed, open_ports, stdout, shutdown, parseVars,
                   resolveVars>>

NextMain ==
    \/ MainParse
    \/ ResolveFamily
    \/ ResolveReturn
    \/ MainCheckAddrs
    \/ Next

SpecMain == InitMain /\ [][NextMain]_vars

(***************************************************************************)
(* Properties of main (SpecMain).                                          *)
(***************************************************************************)
EarlyExit == pc \in {"traceback", "exit_no_ports", "exit_unresolved"}

NothingProbed ==
    /\ submitted = 0
    /\ queue = <<>>
    /\ \A p \in DOMAIN tried : tried[p] = <<>>
    /\ \A p \in DOMAIN connects : connects[p] = <<>>
    /\ \A p \in DOMAIN fut : fut[p] = "unsubmitted"

\* resolve is over and no requested family gave an address
NothingResolved == rstate \notin {"not called", "running"} /\ seen = <<>>

\* C15 as stated: when no requested family yields an address resolve itself
\* ends with an error, not with an empty list.
C15_ResolveRaises == NothingResolved => rstate = "raised"

\* C15, amended: when no requested family yields an address resolve returns
\* the empty list as a normal result, and main treats the empty list as
\* fatal: it leaves at lines 128-131 before any task is submitted.
C15_EmptyResultExitsMain ==
    /\ NothingResolved =>
          /\ rstate = "returned"
          /\ \A k \in 1..Len(Families(force_ipv)) :
                ~lookup[Families(force_ipv)[k]].ok
          /\ mode = "main"
          /\ pc \in {"resolved", "exit_unresolved"}
          /\ NothingProbed
    /\ pc = "exit_unresolved" => NothingResolved

\* both families were asked and both lookups failed: main has left
C15_Witness ==
    /\ pc = "exit_unresolved"
    /\ force_ipv = "None"
    /\ rstate = "returned"
    /\ seen = <<>>
    /\ ports # <<>>

\* the port selection is empty or malformed
NoSelection ==
    \/ parsed.state = "raised"
    \/ parsed.state = "returned" /\ parsed.value = <<>>

OpenLines == SelectSeq(stdout, LAMBDA l : l[1] = "open")

\* C17: when scan finishes open_ports is exactly the set of ports whose own
\* probe returned true, a probe that connected to its own port; the order in
\* which the tasks complete plays no part.
C17_ResultsAttributedToOwnPort ==
    mode = "scan" =>
        /\ \A k \in 1..Len(open_ports) :
              /\ fut[open_ports[k]] = "true"
              /\ open_ports[k] \in Range(consumed)
              /\ OpenLines[k] = <<"open", open_ports[k]>>
        /\ \A p \in Range(ports) :
              fut[p] = "true" =>
                 /\ connects[p] # <<>>
                 /\ \A k \in 1..Len(connects[p]) : connects[p][k][2] = p
                 /\ outcome[<<Len(tried[p]), p>>] = "ok"
        /\ pc = "done" =>
              Range(open_ports) = {p \in Range(ports) : fut[p] = "true"}

\* a finished scan whose second port completed and was consumed first and is
\* the only open one
C17_Witness ==
    /\ pc = "done"
    /\ Len(ports) >= 2
    /\ consumed[1] = ports[2]
    /\ open_ports = <<ports[2]>>
    /\ fut[ports[1]] = "false"

\* C18: open_ports and the completion accounting are written only by the
\* main thread in its as_completed loop, one result at a time; a step of a
\* worker thread never changes them.
C18_SingleConsumer ==
    [][(mode = "scan" /\ (open_ports' # open_ports \/ consumed' # consumed))
         => /\ pc = "collect"
            /\ thread' = thread
            /\ fut' = fut
            /\ queue' = queue
            /\ Len(consumed') = Len(consumed) + 1
            /\ Len(open_ports') <= Len(open_ports) + 1]_vars

\* two tasks have completed side by side and wait for the consumer, which
\* has already recorded an open port
C18_Witness ==
    /\ mode = "scan"
    /\ pc = "collect"
    /\ workers >= 2
    /\ Cardinality({p \in pendingFs : Finished(p)}) >= 2
    /\ open_ports # <<>>

\* C20: with connects that end and fair scheduling the scan runs to its end:
\* eventually every submitted task has been started and has finished and the
\* summary is printed, also with more ports than workers; tasks waiting in
\* the queue for a worker do not wait forever, the queue always drains.
C20_ScanCompletes ==
    /\ <>(pc = "done" /\ SummaryPrinted /\ AllTasksFinished)
    /\ (queue # <<>>) ~> (queue = <<>>)

\* a finished scan of more ports than workers
C20_Witness ==
    /\ pc = "done"
    /\ SummaryPrinted
    /\ workers >= 2
    /\ Len(ports) > workers
    /\ AllTasksFinished

====
